---- MODULE Spec2Model ----
(***************************************************************************)
(* Model of NavigableAppMenuModel (src/appshell/view/                      *)
(* navigableappmenumodel.cpp): the keyboard navigation of the application  *)
(* menu bar.  Every C++ method is an operator on a machine record          *)
(*   [hl, opened, need, last, calls, accepted, mods]                       *)
(* (m_highlightedMenuId, m_openedMenuId, m_needActivateHighlight,          *)
(* m_lastActiveNavigationControl, the log of outbound calls and signals    *)
(* of the running handler, whether event->accept() was called, and the     *)
(* modifiers of the event object being filtered).  The actions deliver one *)
(* event, signal or property write each and store the result.              *)
(***************************************************************************)
EXTENDS Integers, Sequences, FiniteSets, TLC

VARIABLES
    m_highlightedMenuId,            \* QString, "" = no navigation session
    m_openedMenuId,                 \* QString, "" = no menu popup open
    m_needActivateHighlight,        \* bool
    m_lastActiveNavigationControl,  \* control pointer, None = nullptr
    event,                          \* the event/signal delivered last, as the handler left it
    calls,                          \* outbound calls and emitted signals of the last handler
    accepted,                       \* event->accept() was called by the last handler
    filtered,                       \* return value of eventFilter for the last event
    bridge,                         \* what the bridge answered to the last handler
    pre,                            \* navigation state before the last handler ran
    prevKind,                       \* kind of the event delivered before `event`
    track                           \* what happened earlier in the run (SpecSessions)

vars == <<m_highlightedMenuId, m_openedMenuId, m_needActivateHighlight,
          m_lastActiveNavigationControl, event, calls, accepted, filtered, bridge, pre,
          prevKind, track>>

-----------------------------------------------------------------------------
(* Bounds of the model *)

\* number of top-level menus taken from ItemPool
NumItems == 4
\* number of distinct navigation controls the bridge can report as active
NumControls == 2

-----------------------------------------------------------------------------
(* The menu item store (AppMenuModel::items()), fixed during a run *)

Leaf(id, title) == [id |-> id, title |-> title, subitems |-> <<>>]

ItemPool ==
    << [id |-> "File", title |-> <<"&", "F", "i", "l", "e">>,
        subitems |-> << Leaf("Save", <<"&", "S", "a", "v", "e">>),
                        [id |-> "Export", title |-> <<"&", "E", "x", "p">>,
                         subitems |-> << Leaf("Pdf", <<"&", "P", "d", "f">>) >>],
                        Leaf("Close", <<"C", "l", "o", "s", "e">>) >>],
       [id |-> "Edit", title |-> <<"&", "E", "d", "i", "t">>,
        subitems |-> << Leaf("Undo", <<"&", "U", "n", "d", "o">>) >>],
       [id |-> "View", title |-> <<"V", "i", "&", "e", "w">>,
        subitems |-> <<>>],
       [id |-> "Help", title |-> <<"&", "H", "e", "l", "p">>,
        subitems |-> << Leaf("About", <<"A", "b", "o", "u", "t">>) >>],
       [id |-> "Plugins", title |-> <<"P", "l", "u", "g">>,
        subitems |-> <<>>],
       [id |-> "Tools", title |-> <<"&", "T", "o", "o", "l", "s">>,
        subitems |-> <<>>] >>

items == SubSeq(ItemPool, 1, IF NumItems < Len(ItemPool) THEN NumItems ELSE Len(ItemPool))

rowCount == Len(items)

TopIds == {items[i].id : i \in 1..rowCount}

ControlPool == <<"ctrl1", "ctrl2", "ctrl3", "ctrl4">>
Controls == {ControlPool[i] : i \in 1..(IF NumControls < 4 THEN NumControls ELSE 4)}
None == "none"

-----------------------------------------------------------------------------
(* Lookups of the base menu model (AbstractMenuModel, outside this file) *)

InvalidItem == [id |-> "", title |-> <<>>, subitems |-> <<>>]

SeqRange(s) == {s[i] : i \in 1..Len(s)}

\* every item of the store: the menus, their subitems and the subitems' children
AllItems ==
    LET top == SeqRange(items)
        sub == UNION {SeqRange(t.subitems) : t \in top}
        subsub == UNION {SeqRange(t.subitems) : t \in sub}
    IN  top \cup sub \cup subsub

\* AbstractMenuModel::item(int): the item of a row, an invalid item out of range
item(index) ==
    IF index >= 0 /\ index < rowCount THEN items[index + 1] ELSE InvalidItem

\* AbstractMenuModel::itemIndex(id): the row of a top-level id, -1 when absent
itemIndex(id) ==
    IF \E i \in 1..rowCount : items[i].id = id
    THEN (CHOOSE i \in 1..rowCount :
              items[i].id = id /\ \A j \in 1..(i - 1) : items[j].id # id) - 1
    ELSE -1

\* AbstractMenuModel::findItem(id): the item with that id, invalid when absent
findItem(id) ==
    IF \E it \in AllItems : it.id = id
    THEN CHOOSE it \in AllItems : it.id = id
    ELSE InvalidItem

\* AbstractMenuModel::findMenu(id)
findMenu(menuId) == findItem(menuId)

isValid(it) == it.id # ""

-----------------------------------------------------------------------------
(* The key mapper (QKeyMapper::possibleKeys) and QChar/QString helpers *)

LowerCase == <<"a", "b", "c", "d", "e", "f", "g", "h", "i", "j", "k", "l", "m",
               "n", "o", "p", "q", "r", "s", "t", "u", "v", "w", "x", "y", "z">>
UpperCase == <<"A", "B", "C", "D", "E", "F", "G", "H", "I", "J", "K", "L", "M",
               "N", "O", "P", "Q", "R", "S", "T", "U", "V", "W", "X", "Y", "Z">>

\* QChar::toUpper
toUpper(c) ==
    IF \E i \in 1..Len(LowerCase) : LowerCase[i] = c
    THEN UpperCase[CHOOSE i \in 1..Len(LowerCase) : LowerCase[i] = c]
    ELSE c

\* QString::indexOf(ch): 0-based position of the first occurrence, -1 when absent
indexOf(title, ch) ==
    IF \E i \in 1..Len(title) : title[i] = ch
    THEN (CHOOSE i \in 1..Len(title) :
              title[i] = ch /\ \A j \in 1..(i - 1) : title[j] # ch) - 1
    ELSE -1

\* QString::operator[] with a 0-based position
charAt(title, pos) == title[pos + 1]

\* Keys an event can carry
NavigateKeys == {"Key_Left", "Key_Right", "Key_Down", "Key_Space", "Key_Escape", "Key_Return"}
LetterKeys == {"Key_E", "Key_F", "Key_S"}
Keys == {"Key_Alt"} \cup NavigateKeys \cup LetterKeys

Modifiers == {"Alt", "Shift", "Ctrl"}

\* QKeyEvent::text().length(): letters, Space, Return and Escape produce one
\* character, Alt and the arrows none
textLength(key) ==
    IF key \in LetterKeys \cup {"Key_Space", "Key_Escape", "Key_Return"} THEN 1 ELSE 0

\* Key codes of the layout: with the Alt modifier, the codes a key event can
\* stand for.  Key_F is a key that a second layout maps to another letter.
layoutKeysOfEvent(key) ==
    CASE key = "Key_E" -> {"Alt+E"}
      [] key = "Key_F" -> {"Alt+F", "Alt+A"}
      [] key = "Key_S" -> {"Alt+S"}
      [] key = "Key_Space" -> {"Alt+Space"}
      [] key = "Key_Escape" -> {"Alt+Escape"}
      [] key = "Key_Return" -> {"Alt+Return"}
      [] OTHER -> {}

\* ... and the codes that produce a given character; the mapping is
\* case-sensitive, only upper-case letters name a key
layoutKeysOfChar(c) ==
    CASE c = "E" -> {"Alt+E"}
      [] c = "F" -> {"Alt+F"}
      [] c = "S" -> {"Alt+S"}
      [] c = "H" -> {"Alt+H"}
      [] c = "T" -> {"Alt+T"}
      [] c = "U" -> {"Alt+U"}
      [] c = "P" -> {"Alt+P"}
      [] OTHER -> {}

\* possibleKeys(QKeyEvent*): forces the event's modifiers to Alt, then asks
\* the key mapper.  Returns the machine with the event modified, and the keys.
possibleKeysOfEvent(m, e) ==
    [m |-> [m EXCEPT !.mods = {"Alt"}], keys |-> layoutKeysOfEvent(e.key)]

\* possibleKeys(const QChar&)
possibleKeysOfChar(keySymbol) == layoutKeysOfChar(keySymbol)

-----------------------------------------------------------------------------
(* The focus-navigation bridge (navigationController()), an external       *)
(* collaborator: what it answers during one handler is an input.           *)
(*   isHighlight         isHighlight()                                     *)
(*   activeControl       activeControl() as saveMUNavigationSystemState    *)
(*                       reads it                                          *)
(*   activeSection/Panel a section / a panel is active                     *)
(*   controlAfter        activeControl() read after requestActivateByName  *)

Bridge ==
    [isHighlight : BOOLEAN, activeControl : Controls \cup {None},
     activeSection : BOOLEAN, activePanel : BOOLEAN,
     controlAfter : Controls \cup {None}]

\* what the bridge answers when nobody asks
NoBridge ==
    [isHighlight |-> FALSE, activeControl |-> None, activeSection |-> FALSE,
     activePanel |-> FALSE, controlAfter |-> None, asked |-> {}]

\* an outbound call or emitted signal of the running handler
Log(m, call) == [m EXCEPT !.calls = Append(@, call)]
\* the running handler asked the bridge for these answers
Read(m, fields) == [m EXCEPT !.reads = @ \cup fields]

-----------------------------------------------------------------------------
(* Methods of NavigableAppMenuModel *)

setHighlightedMenuId(m, highlightedMenuId) ==
    IF m.hl = highlightedMenuId
    THEN m
    ELSE Log([m EXCEPT !.hl = highlightedMenuId],
             <<"highlightedMenuIdChanged", highlightedMenuId>>)

setOpenedMenuId(m, openedMenuId) ==
    IF m.opened = openedMenuId
    THEN m
    ELSE Log([m EXCEPT !.opened = openedMenuId],
             <<"openedMenuIdChanged", openedMenuId>>)

isNavigationStarted(m) == m.hl # ""

isNavigateKey(key) == key \in NavigateKeys

resetNavigation(m) == setHighlightedMenuId(m, "")

\* mutant: the jump to the first menu also opens it
navigateToFirstMenu_Opening(m) ==
    LET m1 == setHighlightedMenuId(m, item(0).id)
    IN  Log(Log(m1, <<"openMenu", m1.hl>>), <<"dispatch", "nav-first-control">>)

navigateToFirstMenu(m) == setHighlightedMenuId(m, item(0).id)

saveMUNavigationSystemState(m, br) ==
    IF ~br.isHighlight
    THEN Read(m, {"isHighlight"})
    ELSE IF br.activeControl # None
         THEN Log(Read([m EXCEPT !.last = br.activeControl],
                       {"isHighlight", "activeControl"}),
                  <<"setActive(false)", br.activeControl>>)
         ELSE Read(m, {"isHighlight", "activeControl"})

\* mutant: the restore is forgotten
restoreMUNavigationSystemState_Nothing(m) == m

restoreMUNavigationSystemState(m) ==
    IF m.last # None
    THEN Log(m, <<"requestActive", m.last>>)
    ELSE m

\* resetNavigation(); restoreMUNavigationSystemState(); (lines 214-215, 285-286)
EndSessionAndRestore(m) == restoreMUNavigationSystemState(resetNavigation(m))

activateHighlightedMenu(m) ==
    Log(Log(m, <<"openMenu", m.hl>>), <<"dispatch", "nav-first-control">>)

\* the mnemonic of a title matches the keys (lines 395-403); FALSE without marker
mnemonicMatches(title, activatePossibleKeys) ==
    LET activateKeyIndex == indexOf(title, "&")
    IN  IF activateKeyIndex = -1
        THEN FALSE
        ELSE possibleKeysOfChar(toUpper(charAt(title, activateKeyIndex + 1)))
                 \cap activatePossibleKeys # {}

\* mutant: the search goes on into the subitems of each item
menuItemId_Deep(list, activatePossibleKeys) ==
    LET flat == [i \in 1..Len(list) |-> <<list[i]>> \o list[i].subitems]
        hit(i) == \E k \in 1..Len(flat[i]) :
                      mnemonicMatches(flat[i][k].title, activatePossibleKeys)
    IN  IF \E i \in 1..Len(list) : hit(i)
        THEN LET i == CHOOSE i \in 1..Len(list) : hit(i) /\ \A j \in 1..(i - 1) : ~hit(j)
                 k == CHOOSE k \in 1..Len(flat[i]) :
                          /\ mnemonicMatches(flat[i][k].title, activatePossibleKeys)
                          /\ \A l \in 1..(k - 1) :
                                 ~mnemonicMatches(flat[i][l].title, activatePossibleKeys)
             IN  flat[i][k].id
        ELSE ""

\* mutant: the last matching item wins
menuItemId_LastMatch(list, activatePossibleKeys) ==
    IF \E i \in 1..Len(list) : mnemonicMatches(list[i].title, activatePossibleKeys)
    THEN list[CHOOSE i \in 1..Len(list) :
                  /\ mnemonicMatches(list[i].title, activatePossibleKeys)
                  /\ \A j \in (i + 1)..Len(list) :
                         ~mnemonicMatches(list[j].title, activatePossibleKeys)].id
    ELSE ""

\* menuItemId(items, keys): the id of the first item, in order, whose mnemonic matches
menuItemId(list, activatePossibleKeys) ==
    IF \E i \in 1..Len(list) : mnemonicMatches(list[i].title, activatePossibleKeys)
    THEN list[CHOOSE i \in 1..Len(list) :
                  /\ mnemonicMatches(list[i].title, activatePossibleKeys)
                  /\ \A j \in 1..(i - 1) :
                         ~mnemonicMatches(list[j].title, activatePossibleKeys)].id
    ELSE ""

hasItem(activatePossibleKeys) == menuItemId(items, activatePossibleKeys) # ""

hasSubItem(menuId, activatePossibleKeys) ==
    LET menuItem == findMenu(menuId)
    IN  IF menuItem.subitems = <<>>
        THEN FALSE
        ELSE menuItemId(menuItem.subitems, activatePossibleKeys) # ""

\* mutant: Left and Right stop at the ends instead of wrapping
navigateKey_NoWrap(m, key) ==
    CASE key = "Key_Left" ->
            LET newIndex == itemIndex(m.hl) - 1
            IN  setHighlightedMenuId(m, item(IF newIndex < 0 THEN 0 ELSE newIndex).id)
      [] key = "Key_Right" ->
            LET newIndex == itemIndex(m.hl) + 1
            IN  setHighlightedMenuId(m, item(IF newIndex > rowCount - 1 THEN rowCount - 1
                                                                        ELSE newIndex).id)
      [] key \in {"Key_Down", "Key_Space", "Key_Return"} ->
            Log(Log(m, <<"openMenu", m.hl>>), <<"dispatch", "nav-first-control">>)
      [] key = "Key_Escape" ->
            restoreMUNavigationSystemState(setHighlightedMenuId(m, ""))
      [] OTHER -> m

\* navigate(int scanCode)
navigateKey(m, key) ==
    CASE key = "Key_Left" ->
            LET newIndex == itemIndex(m.hl) - 1
            IN  setHighlightedMenuId(m, item(IF newIndex < 0 THEN rowCount - 1
                                                             ELSE newIndex).id)
      [] key = "Key_Right" ->
            LET newIndex == itemIndex(m.hl) + 1
            IN  setHighlightedMenuId(m, item(IF newIndex > rowCount - 1 THEN 0
                                                                        ELSE newIndex).id)
      [] key \in {"Key_Down", "Key_Space", "Key_Return"} ->
            activateHighlightedMenu(m)
      [] key = "Key_Escape" ->
            EndSessionAndRestore(m)
      [] OTHER -> m

\* navigate(const QSet<int>&)
navigateKeys(m, activatePossibleKeys, br) ==
    activateHighlightedMenu(
        setHighlightedMenuId(saveMUNavigationSystemState(m, br),
                             menuItemId(items, activatePossibleKeys)))

\* mutant: the active panel is not checked
navigateToSubItem_NoPanelCheck(m, menuId, activatePossibleKeys, br) ==
    LET menuItem == findItem(menuId)
        subItem == findItem(menuItemId(menuItem.subitems, activatePossibleKeys))
    IN  IF ~isValid(subItem)
        THEN m
        ELSE IF ~br.activeSection
        THEN Read(m, {"activeSection", "activePanel"})
        ELSE LET m1 == Log(Read(m, {"activeSection", "activePanel", "controlAfter"}),
                           <<"requestActivateByName", subItem.id>>)
             IN  IF br.controlAfter = None
                 THEN m1
                 ELSE IF subItem.subitems # <<>>
                      THEN Log(m1, <<"trigger", br.controlAfter>>)
                      ELSE m1

\* mutant: the matched subitem is triggered whether it is a menu or a leaf
navigateToSubItem_TriggerLeaf(m, menuId, activatePossibleKeys, br) ==
    LET menuItem == findItem(menuId)
        subItem == findItem(menuItemId(menuItem.subitems, activatePossibleKeys))
    IN  IF ~isValid(subItem)
        THEN m
        ELSE IF ~br.activeSection \/ ~br.activePanel
        THEN Read(m, {"activeSection", "activePanel"})
        ELSE LET m1 == Log(Read(m, {"activeSection", "activePanel", "controlAfter"}),
                           <<"requestActivateByName", subItem.id>>)
             IN  IF br.controlAfter = None
                 THEN m1
                 ELSE Log(m1, <<"trigger", br.controlAfter>>)

navigateToSubItem(m, menuId, activatePossibleKeys, br) ==
    LET menuItem == findMenu(menuId)
        subItem == findItem(menuItemId(menuItem.subitems, activatePossibleKeys))
    IN  IF ~isValid(subItem)
        THEN m
        ELSE IF ~br.activeSection \/ ~br.activePanel
        THEN Read(m, {"activeSection", "activePanel"})
        ELSE LET m1 == Log(Read(m, {"activeSection", "activePanel", "controlAfter"}),
                           <<"requestActivateByName", subItem.id>>)
             IN  IF br.controlAfter = None
                 THEN m1
                 ELSE IF subItem.subitems # <<>>
                      THEN Log(m1, <<"trigger", br.controlAfter>>)
                      ELSE m1

-----------------------------------------------------------------------------
(* The event filter.  An event is [type, key, mods, target]; only          *)
(* ShortcutOverride, KeyPress and KeyRelease events are QKeyEvents.        *)

KeyEventTypes == {"ShortcutOverride", "KeyPress", "KeyRelease"}
\* the objects an event can be delivered to: the main application window,
\* another window (a menu popup) and an object that is no window
Targets == {"appWindow", "popupWindow", "widget"}

isWindowType(watched) == watched \in {"appWindow", "popupWindow"}

\* dynamic_cast<QKeyEvent*>(event) succeeds
isKeyEvent(e) == e.type \in KeyEventTypes

Return(m, ret) == [m |-> m, ret |-> ret]
accept(m) == [m EXCEPT !.accepted = TRUE]

processEventForOpenedMenu(m, e, br) ==
    IF e.type # "ShortcutOverride"
    THEN Return(m, FALSE)
    ELSE LET isNavigationWithSymbol == e.mods = {} /\ textLength(e.key) = 1
         IN  IF ~isNavigationWithSymbol
             THEN Return(m, FALSE)
             ELSE LET pk == possibleKeysOfEvent(m, e)
                  IN  IF hasSubItem(pk.m.opened, pk.keys)
                      THEN Return(accept(navigateToSubItem(pk.m, pk.m.opened, pk.keys, br)),
                                  TRUE)
                      ELSE Return(pk.m, FALSE)

\* mutant: a plain character counts with or without a session
isNavigationWithSymbol_AnyTime(m, e) ==
    e.mods = {} /\ textLength(e.key) = 1

\* lines 157-159
isNavigationWithSymbol(m, e) ==
    e.mods = {} /\ textLength(e.key) = 1 /\ isNavigationStarted(m)

\* lines 160-162
isNavigationWithAlt(e) ==
    "Alt" \in e.mods /\ "Shift" \notin e.mods /\ textLength(e.key) = 1

\* mutant: the Shift modifier is not looked at
isAltKey_IgnoringShift(e) == e.key = "Key_Alt"

\* lines 164-166
isAltKey(e) ==
    e.key = "Key_Alt" /\ e.key # "Key_Shift" /\ "Shift" \notin e.mods

\* mutant: the probe forgets the navigation keys
onShortcutOverride_NoNavigateKeys(m, e) ==
    IF isNavigationWithSymbol(m, e) \/ isNavigationWithAlt(e)
    THEN LET pk == possibleKeysOfEvent(m, e)
         IN  IF hasItem(pk.keys)
             THEN [m |-> [pk.m EXCEPT !.accepted = TRUE], ret |-> TRUE]
             ELSE [m |-> pk.m, ret |-> FALSE]
    ELSE [m |-> m, ret |-> FALSE]

onShortcutOverride(m, e) ==
    IF isNavigationStarted(m) /\ isNavigateKey(e.key)
    THEN Return(accept(m), TRUE)
    ELSE IF isNavigationWithSymbol(m, e) \/ isNavigationWithAlt(e)
         THEN LET pk == possibleKeysOfEvent(m, e)
              IN  IF hasItem(pk.keys)
                  THEN Return(accept(pk.m), TRUE)
                  ELSE Return(pk.m, FALSE)
         ELSE Return(m, FALSE)

\* mutant: a navigation key leaves the flag as it was
onKeyPress_KeepingFlag(m, e, br) ==
    IF e.key = "Key_Alt" /\ "Shift" \notin e.mods
    THEN [m |-> [m EXCEPT !.need = TRUE], ret |-> FALSE]
    ELSE IF m.hl # "" /\ e.key \in NavigateKeys
    THEN [m |-> [navigateKey(m, e.key) EXCEPT !.accepted = TRUE], ret |-> TRUE]
    ELSE IF isNavigationWithSymbol(m, e) \/ isNavigationWithAlt(e)
         THEN LET pk == possibleKeysOfEvent(m, e)
              IN  IF hasItem(pk.keys)
                  THEN [m |-> [navigateKeys(pk.m, pk.keys, br)
                                  EXCEPT !.need = TRUE, !.accepted = TRUE],
                        ret |-> TRUE]
                  ELSE [m |-> pk.m, ret |-> FALSE]
         ELSE [m |-> m, ret |-> FALSE]

onKeyPress(m, e, br) ==
    IF isAltKey(e)
    THEN Return([m EXCEPT !.need = TRUE], FALSE)
    ELSE IF isNavigationStarted(m) /\ isNavigateKey(e.key)
    THEN Return(accept([navigateKey(m, e.key) EXCEPT !.need = FALSE]), TRUE)
    ELSE IF isNavigationWithSymbol(m, e) \/ isNavigationWithAlt(e)
         THEN LET pk == possibleKeysOfEvent(m, e)
              IN  IF hasItem(pk.keys)
                  THEN Return(accept([navigateKeys(pk.m, pk.keys, br)
                                          EXCEPT !.need = TRUE]), TRUE)
                  ELSE Return(pk.m, FALSE)
         ELSE Return(m, FALSE)

\* mutant: the release that starts the session clears the flag
onKeyRelease_ClearingFlag(m, e, br) ==
    IF ~(e.key = "Key_Alt" /\ "Shift" \notin e.mods)
    THEN [m |-> m, ret |-> FALSE]
    ELSE IF m.hl # ""
    THEN [m |-> restoreMUNavigationSystemState(setHighlightedMenuId(m, "")), ret |-> FALSE]
    ELSE IF m.need
         THEN [m |-> [setHighlightedMenuId(saveMUNavigationSystemState(m, br), item(0).id)
                          EXCEPT !.need = FALSE],
               ret |-> FALSE]
         ELSE [m |-> [m EXCEPT !.need = TRUE], ret |-> FALSE]

\* mutant: a release that finds the flag false leaves it false
onKeyRelease_NotArming(m, e, br) ==
    IF ~(e.key = "Key_Alt" /\ "Shift" \notin e.mods)
    THEN [m |-> m, ret |-> FALSE]
    ELSE IF m.hl # ""
    THEN [m |-> restoreMUNavigationSystemState(setHighlightedMenuId(m, "")), ret |-> FALSE]
    ELSE IF m.need
         THEN [m |-> setHighlightedMenuId(saveMUNavigationSystemState(m, br), item(0).id),
               ret |-> FALSE]
         ELSE [m |-> m, ret |-> FALSE]

onKeyRelease(m, e, br) ==
    IF ~isAltKey(e)
    THEN Return(m, FALSE)
    ELSE IF isNavigationStarted(m)
    THEN Return(EndSessionAndRestore(m), FALSE)
    ELSE IF m.need
         THEN Return(navigateToFirstMenu(saveMUNavigationSystemState(m, br)), FALSE)
         ELSE Return([m EXCEPT !.need = TRUE], FALSE)

onMouseButtonPress(m) == Return(resetNavigation(m), FALSE)

processEventForAppMenu(m, e, br) ==
    IF ~isKeyEvent(e)
    THEN Return(m, FALSE)
    ELSE CASE e.type = "ShortcutOverride" -> onShortcutOverride(m, e)
           [] e.type = "KeyPress" -> onKeyPress(m, e, br)
           [] e.type = "KeyRelease" -> onKeyRelease(m, e, br)
           [] e.type = "MouseButtonPress" -> onMouseButtonPress(m)
           [] OTHER -> Return(m, FALSE)

\* AbstractMenuModel::eventFilter, i.e. QObject::eventFilter: filters nothing
baseEventFilter(m, e) == Return(m, FALSE)

\* mutant: the main window's events go to the menu bar handler first
eventFilter_MenuBarFirst(m, e, br) ==
    IF e.target = "appWindow"
    THEN LET r == processEventForAppMenu(m, e, br)
         IN  IF r.ret THEN r ELSE [m |-> r.m, ret |-> FALSE]
    ELSE IF m.opened # "" /\ isWindowType(e.target)
    THEN processEventForOpenedMenu(m, e, br)
    ELSE [m |-> m, ret |-> FALSE]

eventFilter(m, e, br) ==
    IF m.opened # "" /\ isWindowType(e.target)
    THEN processEventForOpenedMenu(m, e, br)
    ELSE IF e.target = "appWindow"
    THEN LET r == processEventForAppMenu(m, e, br)
         IN  IF r.ret THEN r ELSE baseEventFilter(r.m, e)
    ELSE baseEventFilter(m, e)

\* mutant: leaving the active state ends the session the way Escape does
onApplicationStateChanged_Restoring(m, state) ==
    IF state # "ApplicationActive"
    THEN restoreMUNavigationSystemState(setHighlightedMenuId(m, ""))
    ELSE m

\* the lambda connected to QApplication::applicationStateChanged
onApplicationStateChanged(m, state) ==
    IF state # "ApplicationActive" THEN resetNavigation(m) ELSE m

ApplicationStates ==
    {"ApplicationSuspended", "ApplicationHidden", "ApplicationInactive", "ApplicationActive"}

-----------------------------------------------------------------------------
(* The state machine *)

\* the navigation state, as the record the methods work on
NavState ==
    [hl |-> m_highlightedMenuId, opened |-> m_openedMenuId,
     need |-> m_needActivateHighlight, last |-> m_lastActiveNavigationControl]

\* the machine a handler starts from when it filters an event with these modifiers
Machine(mods) ==
    [hl |-> m_highlightedMenuId, opened |-> m_openedMenuId,
     need |-> m_needActivateHighlight, last |-> m_lastActiveNavigationControl,
     calls |-> <<>>, accepted |-> FALSE, mods |-> mods, reads |-> {}]

\* a bridge that answers every question, to find the questions a handler asks
FullBridge ==
    [isHighlight |-> TRUE, activeControl |-> ControlPool[1], activeSection |-> TRUE,
     activePanel |-> TRUE, controlAfter |-> ControlPool[1]]

\* the bridges that differ in the answers asked for only
BridgesAnswering(reads) ==
    [isHighlight : IF "isHighlight" \in reads THEN BOOLEAN ELSE {NoBridge.isHighlight},
     activeControl : IF "activeControl" \in reads THEN Controls \cup {None}
                                                   ELSE {NoBridge.activeControl},
     activeSection : IF "activeSection" \in reads THEN BOOLEAN
                                                   ELSE {NoBridge.activeSection},
     activePanel : IF "activePanel" \in reads THEN BOOLEAN ELSE {NoBridge.activePanel},
     controlAfter : IF "controlAfter" \in reads THEN Controls \cup {None}
                                                 ELSE {NoBridge.controlAfter}]

\* the answers the handler asked for, the others blank, and what it asked
Answered(br, reads) ==
    [f \in DOMAIN NoBridge |->
        IF f = "asked" THEN reads ELSE IF f \in reads THEN br[f] ELSE NoBridge[f]]

Store(m) ==
    /\ m_highlightedMenuId' = m.hl
    /\ m_openedMenuId' = m.opened
    /\ m_needActivateHighlight' = m.need
    /\ m_lastActiveNavigationControl' = m.last
    /\ calls' = m.calls
    /\ accepted' = m.accepted
    /\ pre' = NavState

\* the event loop is between two deliveries: nothing is being filtered
Idle == event.type = "none"

\* qApp delivers event e to the installed filter, which runs to completion
Deliver(e) ==
    LET m0 == Machine(e.mods)
        asked == eventFilter(m0, e, FullBridge).m.reads
    IN  \E br \in BridgesAnswering(asked) :
            LET r == eventFilter(m0, e, br)
            IN  /\ Store(r.m)
                /\ prevKind' = prevKind
                /\ track' = track
                /\ filtered' = r.ret
                /\ bridge' = Answered(br, r.m.reads)
                /\ event' = [type |-> e.type, key |-> e.key, mods |-> e.mods,
                             target |-> e.target, modsAfter |-> r.m.mods]

KeyEvent(type, key, mods, target) ==
    [type |-> type, key |-> key, mods |-> mods, target |-> target]

NoEvent ==
    [type |-> "none", key |-> "none", mods |-> {}, target |-> "none", modsAfter |-> {}]

\* Nothing has happened yet.
\*   saved  the control that saveMUNavigationSystemState stored for the session
\*          in progress, None when it stored none or no session is in progress
\*   armed  a bare Alt release found no session and the flag false, and no
\*          session has started since
\*   combo  the event before `event` was a key press with Alt held, on the menu
\*          bar, in a row of such presses that began right after a bare Alt press
NoTrack == [saved |-> None, armed |-> FALSE, combo |-> FALSE]

\* The members' initialisers are in the header, which is not part of this
\* file: the strings start empty and the pointer null; the flag may start
\* either way.
Init ==
    /\ m_highlightedMenuId = ""
    /\ m_openedMenuId = ""
    /\ m_needActivateHighlight \in BOOLEAN
    /\ m_lastActiveNavigationControl = None
    /\ event = NoEvent
    /\ calls = <<>>
    /\ accepted = FALSE
    /\ filtered = FALSE
    /\ bridge = NoBridge
    /\ pre = [hl |-> "", opened |-> "", need |-> m_needActivateHighlight, last |-> None]
    /\ prevKind = "none"
    /\ track = NoTrack

ShortcutOverride ==
    /\ Idle
    /\ \E key \in Keys, mods \in SUBSET Modifiers, target \in Targets :
           Deliver(KeyEvent("ShortcutOverride", key, mods, target))

KeyPress ==
    /\ Idle
    /\ \E key \in Keys, mods \in SUBSET Modifiers, target \in Targets :
           Deliver(KeyEvent("KeyPress", key, mods, target))

KeyRelease ==
    /\ Idle
    /\ \E key \in Keys, mods \in SUBSET Modifiers, target \in Targets :
           Deliver(KeyEvent("KeyRelease", key, mods, target))

MouseButtonPress ==
    /\ Idle
    /\ \E target \in Targets :
           Deliver(KeyEvent("MouseButtonPress", "none", {}, target))

ApplicationStateChanged ==
    \E state \in ApplicationStates :
        /\ Idle
        /\ Store(onApplicationStateChanged(Machine({}), state))
        /\ prevKind' = prevKind
        /\ track' = track
        /\ filtered' = FALSE
        /\ bridge' = NoBridge
        /\ event' = [type |-> "applicationStateChanged", key |-> state, mods |-> {},
                     target |-> "qApp", modsAfter |-> {}]

\* the menu bar view writes the openedMenuId property when a popup opens or closes
SetOpenedMenuId ==
    \E openedMenuId \in TopIds \cup {""} :
        /\ Idle
        /\ Store(setOpenedMenuId(Machine({}), openedMenuId))
        /\ prevKind' = prevKind
        /\ track' = track
        /\ filtered' = FALSE
        /\ bridge' = NoBridge
        /\ event' = [type |-> "setOpenedMenuId", key |-> openedMenuId, mods |-> {},
                     target |-> "view", modsAfter |-> {}]

\* what the next handler needs to know about the event just handled: a bare
\* Alt key press that the menu bar handler saw, or anything else
Kind ==
    IF /\ event.type = "KeyPress" /\ isAltKey(event)
       /\ event.target = "appWindow" /\ pre.opened = ""
    THEN "bareAltPress"
    ELSE "other"

\* the handler has returned; control is back in the event loop
ReturnToEventLoop ==
    /\ ~Idle
    /\ event' = NoEvent
    /\ calls' = <<>>
    /\ accepted' = FALSE
    /\ filtered' = FALSE
    /\ bridge' = NoBridge
    /\ pre' = NavState
    /\ prevKind' = Kind
    /\ track' = track
    /\ UNCHANGED <<m_highlightedMenuId, m_openedMenuId, m_needActivateHighlight,
                   m_lastActiveNavigationControl>>

\* the control the handler that just ran stored with setActive(false), if any
ControlSavedNow ==
    IF \E i \in 1..Len(calls) : calls[i][1] = "setActive(false)"
    THEN calls[CHOOSE i \in 1..Len(calls) : calls[i][1] = "setActive(false)"][2]
    ELSE None

\* the record of the run, brought up to date with the event just handled
TrackNow ==
    [saved |-> IF m_highlightedMenuId = "" THEN None
               ELSE IF ControlSavedNow # None THEN ControlSavedNow
               ELSE IF pre.hl = "" THEN None
               ELSE track.saved,
     armed |-> IF m_highlightedMenuId # "" THEN FALSE
               ELSE IF /\ event.type = "KeyRelease" /\ isAltKey(event)
                       /\ event.target = "appWindow" /\ pre.opened = ""
                       /\ pre.hl = "" /\ ~pre.need
               THEN TRUE
               ELSE track.armed,
     combo |-> /\ event.type = "KeyPress" /\ ~isAltKey(event)
               /\ "Alt" \in event.mods
               /\ event.target = "appWindow" /\ pre.opened = ""
               /\ (prevKind = "bareAltPress" \/ track.combo)]

\* the handler has returned, and the run so far is recorded
ReturnToEventLoopTracking ==
    /\ ~Idle
    /\ event' = NoEvent
    /\ calls' = <<>>
    /\ accepted' = FALSE
    /\ filtered' = FALSE
    /\ bridge' = NoBridge
    /\ pre' = NavState
    /\ prevKind' = Kind
    /\ track' = TrackNow
    /\ UNCHANGED <<m_highlightedMenuId, m_openedMenuId, m_needActivateHighlight,
                   m_lastActiveNavigationControl>>

Next ==
    \/ ReturnToEventLoop
    \/ ShortcutOverride
    \/ KeyPress
    \/ KeyRelease
    \/ MouseButtonPress
    \/ ApplicationStateChanged
    \/ SetOpenedMenuId

Spec == Init /\ [][Next]_vars

\* the same machine, with the record of the run kept
NextSessions ==
    \/ ReturnToEventLoopTracking
    \/ ShortcutOverride
    \/ KeyPress
    \/ KeyRelease
    \/ MouseButtonPress
    \/ ApplicationStateChanged
    \/ SetOpenedMenuId

SpecSessions == Init /\ [][NextSessions]_vars

-----------------------------------------------------------------------------
(* Vocabulary of the properties *)

\* the last event went to the menu bar handler (processEventForAppMenu)
OnMenuBar == event.target = "appWindow" /\ pre.opened = ""

\* the last event went to the handler of an opened menu
OnOpenedMenu == isWindowType(event.target) /\ pre.opened # ""

BareAltPressed == event.type = "KeyPress" /\ isAltKey(event)
BareAltReleased == event.type = "KeyRelease" /\ isAltKey(event)

SessionWasActive == pre.hl # ""

\* number of calls of that name in a log
CountOf(log, name) == Cardinality({i \in 1..Len(log) : log[i][1] = name})
Called(name) == CountOf(calls, name) > 0

\* Activate() ran exactly once, for that menu: the open-menu notification
\* followed by the dispatch of the first-control action
ActivatedOnce(id) ==
    /\ CountOf(calls, "openMenu") = 1
    /\ CountOf(calls, "dispatch") = 1
    /\ \E i \in 1..(Len(calls) - 1) :
           /\ calls[i] = <<"openMenu", id>>
           /\ calls[i + 1] = <<"dispatch", "nav-first-control">>

NotActivated == ~Called("openMenu") /\ ~Called("dispatch")

\* calls that reach the focus-navigation bridge or one of its controls
BridgeCallNames == {"setActive(false)", "requestActive", "requestActivateByName", "trigger"}
BridgeCalls == {i \in 1..Len(calls) : calls[i][1] \in BridgeCallNames}

FirstId == items[1].id

-----------------------------------------------------------------------------
(* C1 *)

\* an isolated Alt tap on the menu bar with no session: the release follows
\* the bare Alt press directly
AltTapReleased ==
    /\ BareAltReleased /\ OnMenuBar
    /\ prevKind = "bareAltPress"
    /\ ~SessionWasActive

\* C1 as stated: an isolated bare Alt press and release on the main window,
\* with no session and no menu open, highlights the first top-level item and
\* fires Activate() (open-menu notification for it, first-control dispatch).
C1_AltTapActivatesFirstMenu ==
    AltTapReleased =>
        /\ m_highlightedMenuId = FirstId
        /\ ActivatedOnce(FirstId)

\* C1 amended: the tap highlights the first top-level item and does not fire
\* Activate(): neither the open-menu notification nor the dispatch is issued.
C1_AltTapHighlightsFirstMenu ==
    AltTapReleased =>
        /\ m_highlightedMenuId = FirstId
        /\ NotActivated

C1_Witness ==
    /\ AltTapReleased
    /\ m_highlightedMenuId = FirstId
    /\ calls = << <<"highlightedMenuIdChanged", FirstId>> >>

-----------------------------------------------------------------------------
(* C2 *)

\* C2: performing EndSessionAndRestore twice in a row from a state with an
\* active session leaves highlightedMenuId empty and issues the restore
\* request (requestActive) at most once in total.
C2_EndSessionAndRestoreIdempotent ==
    (Idle /\ isNavigationStarted(Machine({}))) =>
        LET twice == EndSessionAndRestore(EndSessionAndRestore(Machine({})))
        IN  /\ twice.hl = ""
            /\ CountOf(twice.calls, "requestActive") <= 1

-----------------------------------------------------------------------------
(* C3 *)

\* C3: a pointer press delivered to the main application window leaves
\* highlightedMenuId empty and issues no restore request, in every state.
C3_PointerPressEndsSession ==
    (event.type = "MouseButtonPress" /\ event.target = "appWindow") =>
        /\ m_highlightedMenuId = ""
        /\ ~Called("requestActive")

-----------------------------------------------------------------------------
(* C4 *)

\* row of a top-level id, counted from 0
RowOf(id) == CHOOSE i \in 0..(rowCount - 1) : items[i + 1].id = id

\* a Left or Right key press that reaches the menu bar during a session
MovePressed(key) ==
    /\ event.type = "KeyPress" /\ event.key = key
    /\ OnMenuBar /\ SessionWasActive

\* C4: during a session on the menu bar, Right moves the highlight from row i
\* to row (i + 1) mod n and Left to row (i - 1) mod n, wrapping both ways.
C4_MoveWraps ==
    /\ MovePressed("Key_Right") =>
           m_highlightedMenuId = items[((RowOf(pre.hl) + 1) % rowCount) + 1].id
    /\ MovePressed("Key_Left") =>
           m_highlightedMenuId = items[((RowOf(pre.hl) + rowCount - 1) % rowCount) + 1].id

C4_Witness ==
    /\ MovePressed("Key_Right")
    /\ pre.hl = items[rowCount].id
    /\ rowCount > 1
    /\ m_highlightedMenuId = items[1].id

-----------------------------------------------------------------------------
(* C5 *)

\* a key press that is a mnemonic candidate and reaches the menu bar handler
MnemonicCandidatePressed ==
    /\ event.type = "KeyPress" /\ OnMenuBar
    /\ textLength(event.key) = 1
    /\ \/ "Alt" \in event.mods /\ "Shift" \notin event.mods
       \/ event.mods = {} /\ SessionWasActive
    /\ ~(SessionWasActive /\ event.key \in NavigateKeys)

\* the keys of the pressed key meet the keys of the letter after the marker
MeetsMnemonicOf(it) ==
    /\ \E i \in 1..(Len(it.title) - 1) : it.title[i] = "&"
    /\ LET i == CHOOSE i \in 1..(Len(it.title) - 1) :
                    it.title[i] = "&" /\ \A j \in 1..(i - 1) : it.title[j] # "&"
       IN  layoutKeysOfChar(toUpper(it.title[i + 1])) \cap layoutKeysOfEvent(event.key) # {}

\* C5 as stated: for every top-level item with a mnemonic, a mnemonic-candidate
\* key press whose keys meet that item's mnemonic keys highlights that item,
\* fires Activate() once for it and is consumed, also when several items match.
C5_MnemonicSelectsEveryMatchingItem ==
    \A r \in 1..rowCount :
        (MnemonicCandidatePressed /\ MeetsMnemonicOf(items[r])) =>
            /\ m_highlightedMenuId = items[r].id
            /\ ActivatedOnce(items[r].id)
            /\ filtered /\ accepted

\* C5 amended: the press highlights the first item, in the store's order, whose
\* mnemonic keys it meets, fires Activate() once for that item and is consumed.
C5_MnemonicSelectsFirstMatchingItem ==
    \A r \in 1..rowCount :
        (/\ MnemonicCandidatePressed /\ MeetsMnemonicOf(items[r])
         /\ \A q \in 1..(r - 1) : ~MeetsMnemonicOf(items[q])) =>
            /\ m_highlightedMenuId = items[r].id
            /\ ActivatedOnce(items[r].id)
            /\ filtered /\ accepted

\* two items match the press; the first of them is highlighted and opened
C5_Witness ==
    /\ MnemonicCandidatePressed
    /\ \E q, r \in 1..rowCount :
           /\ q < r /\ MeetsMnemonicOf(items[q]) /\ MeetsMnemonicOf(items[r])
           /\ m_highlightedMenuId = items[q].id
           /\ ActivatedOnce(items[q].id)

-----------------------------------------------------------------------------
(* C6 *)

\* a keyboard exit of a session on the menu bar: Escape pressed, or bare Alt released
SessionExitKey ==
    /\ OnMenuBar /\ SessionWasActive
    /\ \/ event.type = "KeyPress" /\ event.key = "Key_Escape"
       \/ BareAltReleased

\* C6: both keyboard exits of a session (Escape press, bare Alt release, no
\* menu open) clear highlightedMenuId and request the saved focus control, if
\* there is one, to become active; with none saved the bridge gets no call.
C6_SessionExitRestores ==
    SessionExitKey =>
        /\ m_highlightedMenuId = ""
        /\ IF pre.last # None
           THEN /\ Cardinality(BridgeCalls) = 1
                /\ \E i \in BridgeCalls : calls[i] = <<"requestActive", pre.last>>
           ELSE BridgeCalls = {}

C6_Witness ==
    /\ SessionExitKey
    /\ event.key = "Key_Escape"
    /\ pre.last # None
    /\ calls = << <<"highlightedMenuIdChanged", "">>, <<"requestActive", pre.last>> >>

-----------------------------------------------------------------------------
(* C7 *)

\* File is open and the key S, the mnemonic of its leaf subitem Save, arrives
\* without modifiers at a window
SaveKeyWhileFileOpen(type) ==
    /\ event.type = type /\ event.key = "Key_S" /\ event.mods = {}
    /\ isWindowType(event.target)
    /\ pre.opened = "File"

\* the subitem navigation path ran for Save: the bridge was asked for its
\* active section and panel, got the activation request when both exist,
\* and no control was triggered
SaveSubitemNavigated ==
    /\ {"activeSection", "activePanel"} \subseteq bridge.asked
    /\ (bridge.activeSection /\ bridge.activePanel) =>
           /\ CountOf(calls, "requestActivateByName") = 1
           /\ \E i \in 1..Len(calls) : calls[i] = <<"requestActivateByName", "Save">>
    /\ ~(bridge.activeSection /\ bridge.activePanel) => calls = <<>>
    /\ ~Called("trigger")

-----------------------------------------------------------------------------
(* C8 *)

\* C8: whenever the application leaves the active state, highlightedMenuId is
\* empty afterwards, no restore request is issued and the rest of the
\* navigation state is as before; becoming active changes nothing.
C8_InactiveApplicationResets ==
    event.type = "applicationStateChanged" =>
        IF event.key # "ApplicationActive"
        THEN /\ m_highlightedMenuId = ""
             /\ ~Called("requestActive")
             /\ NavState = [pre EXCEPT !.hl = ""]
        ELSE NavState = pre /\ calls = <<>>

C8_Witness ==
    /\ event.type = "applicationStateChanged"
    /\ event.key = "ApplicationInactive"
    /\ pre.hl # "" /\ pre.opened # "" /\ pre.last # None
    /\ m_highlightedMenuId = ""

-----------------------------------------------------------------------------
(* C9 *)

\* a probe or press of one character without modifiers, on the menu bar,
\* outside a session
PlainTextOutsideSession ==
    /\ event.type \in {"ShortcutOverride", "KeyPress"}
    /\ OnMenuBar /\ ~SessionWasActive
    /\ event.mods = {} /\ textLength(event.key) = 1

\* C9: outside a session and with no menu open, a probe or press of a single
\* character without modifiers is not consumed and has no effect at all.
C9_PlainTextPassesThrough ==
    PlainTextOutsideSession =>
        /\ ~filtered /\ ~accepted
        /\ NavState = pre
        /\ calls = <<>> /\ bridge.asked = {}

\* the letter is the mnemonic of a top-level menu, and still passes through
C9_Witness ==
    /\ PlainTextOutsideSession
    /\ event.type = "KeyPress" /\ event.key = "Key_E"
    /\ hasItem(layoutKeysOfEvent(event.key))
    /\ ~filtered

-----------------------------------------------------------------------------
(* C10 *)

\* a bare Alt release on the menu bar that finds no session and the flag set
ArmedAltReleased ==
    /\ BareAltReleased /\ OnMenuBar
    /\ ~SessionWasActive /\ pre.need

\* C10 as stated: after the release that starts the session, the flag is false.
C10_FlagClearedWhenConsumed ==
    ArmedAltReleased => ~m_needActivateHighlight

\* C10 amended: the release starts the session (first item highlighted) and
\* leaves the flag true.
C10_FlagStaysSetWhenConsumed ==
    ArmedAltReleased =>
        /\ m_highlightedMenuId = FirstId
        /\ m_needActivateHighlight

C10_Witness ==
    /\ ArmedAltReleased
    /\ m_highlightedMenuId = FirstId
    /\ m_needActivateHighlight
    /\ bridge.isHighlight /\ m_lastActiveNavigationControl = bridge.activeControl
    /\ bridge.activeControl # None

-----------------------------------------------------------------------------
(* C11 (checked under SpecSessions) *)

\* C11: a session exit by Escape or bare Alt release requests only the control
\* saved at the start of the session that is ending; when that save stored
\* nothing, the exit issues no requestActive at all.
C11_RestoreTargetsThisSessionsControl ==
    SessionExitKey =>
        \A i \in 1..Len(calls) :
            calls[i][1] = "requestActive" =>
                track.saved # None /\ calls[i][2] = track.saved

-----------------------------------------------------------------------------
(* C12 (checked under SpecSessions) *)

\* a bare Alt release on the menu bar, with no session, after a bare Alt press
\* and one or more key presses made while Alt was held
AltReleasedAfterCombo ==
    /\ BareAltReleased /\ OnMenuBar
    /\ ~SessionWasActive
    /\ track.combo

\* C12: when another key press was delivered to the main window between the
\* bare Alt press and the bare Alt release, the release starts no session:
\* highlightedMenuId stays empty.
C12_OnlyIsolatedAltTapStartsSession ==
    AltReleasedAfterCombo => m_highlightedMenuId = ""

-----------------------------------------------------------------------------
(* C13 *)

\* a navigation key press that reaches the menu bar handler
NavigateKeyPressed ==
    /\ event.type = "KeyPress" /\ event.key \in NavigateKeys
    /\ OnMenuBar

\* C13: during a session a navigation key press performs its action, clears
\* the flag and is consumed; Down, Space and Return fire Activate() for the
\* highlighted menu and leave the highlight; outside a session the same
\* presses are not consumed and change no state.
C13_NavigateKeysActInSessionOnly ==
    NavigateKeyPressed =>
        IF SessionWasActive
        THEN /\ filtered /\ accepted
             /\ ~m_needActivateHighlight
             /\ m_openedMenuId = pre.opened
             /\ m_lastActiveNavigationControl = pre.last
             /\ event.key \in {"Key_Down", "Key_Space", "Key_Return"} =>
                    /\ m_highlightedMenuId = pre.hl
                    /\ calls = << <<"openMenu", pre.hl>>, <<"dispatch", "nav-first-control">> >>
             /\ event.key \in {"Key_Left", "Key_Right"} =>
                    /\ m_highlightedMenuId \in TopIds
                    /\ NotActivated /\ BridgeCalls = {}
             /\ event.key = "Key_Escape" =>
                    /\ m_highlightedMenuId = ""
                    /\ NotActivated
        ELSE /\ ~filtered /\ ~accepted
             /\ NavState = pre
             /\ calls = <<>> /\ bridge.asked = {}

C13_Witness ==
    /\ NavigateKeyPressed /\ SessionWasActive
    /\ event.key = "Key_Down"
    /\ pre.need /\ ~m_needActivateHighlight
    /\ ActivatedOnce(pre.hl)

-----------------------------------------------------------------------------
(* C14 (checked under SpecSessions) *)

\* a bare Alt release on the menu bar that finds no session
AltReleasedOutsideSession ==
    /\ BareAltReleased /\ OnMenuBar
    /\ ~SessionWasActive

\* C14: such a release with the flag false only sets the flag; and the next
\* such release, no session having started in between, highlights the first
\* top-level item.
C14_SecondAltReleaseStartsSession ==
    /\ (AltReleasedOutsideSession /\ ~pre.need) =>
           /\ m_needActivateHighlight
           /\ m_highlightedMenuId = ""
           /\ m_lastActiveNavigationControl = pre.last
           /\ calls = <<>> /\ bridge.asked = {}
    /\ (AltReleasedOutsideSession /\ track.armed) =>
           m_highlightedMenuId = FirstId

C14_Witness ==
    /\ AltReleasedOutsideSession
    /\ track.armed
    /\ prevKind # "bareAltPress"
    /\ m_highlightedMenuId = FirstId

-----------------------------------------------------------------------------
(* C15 *)

\* C15: a bare Alt key press on the menu bar is never consumed, sets the flag
\* and leaves the highlight and the saved control alone, in or out of a
\* session; with Shift held, an Alt press or release changes no state.
C15_BareAltPressOnlyArms ==
    /\ (BareAltPressed /\ OnMenuBar) =>
           /\ ~filtered /\ ~accepted
           /\ m_needActivateHighlight
           /\ NavState = [pre EXCEPT !.need = TRUE]
           /\ calls = <<>> /\ bridge.asked = {}
    /\ (/\ event.type \in {"KeyPress", "KeyRelease"} /\ event.key = "Key_Alt"
        /\ "Shift" \in event.mods /\ OnMenuBar) =>
           /\ NavState = pre
           /\ calls = <<>> /\ bridge.asked = {}

\* the press arms the flag in the middle of a session
C15_Witness ==
    /\ BareAltPressed /\ OnMenuBar
    /\ SessionWasActive /\ ~pre.need
    /\ m_needActivateHighlight
    /\ m_highlightedMenuId = pre.hl

-----------------------------------------------------------------------------
(* C16 *)

\* the probe that the handler of an opened menu looks at
SubitemProbe ==
    /\ event.type = "ShortcutOverride" /\ OnOpenedMenu
    /\ event.mods = {} /\ textLength(event.key) = 1

OpenedSubitems == items[RowOf(pre.opened) + 1].subitems

\* C16: subitem navigation issues nothing when no subitem of the open menu
\* matches or the bridge lacks an active section or panel; otherwise it issues
\* requestActivateByName once, for the first matching subitem, and trigger()
\* only for a subitem with children while a control is active.
C16_SubitemNavigationIsSilentOrExact ==
    /\ ~SubitemProbe => ~Called("requestActivateByName") /\ ~Called("trigger")
    /\ SubitemProbe =>
           LET subs == OpenedSubitems
               hits == {i \in 1..Len(subs) : MeetsMnemonicOf(subs[i])}
           IN  IF hits = {} \/ ~(bridge.activeSection /\ bridge.activePanel)
               THEN calls = <<>>
               ELSE LET sub == subs[CHOOSE i \in hits : \A j \in hits : i <= j]
                    IN  /\ calls[1] = <<"requestActivateByName", sub.id>>
                        /\ CountOf(calls, "requestActivateByName") = 1
                        /\ IF sub.subitems # <<>> /\ bridge.controlAfter # None
                           THEN calls = << calls[1], <<"trigger", bridge.controlAfter>> >>
                           ELSE calls = << calls[1] >>

\* the nested menu Export is focused and expanded
C16_Witness ==
    /\ SubitemProbe
    /\ pre.opened = "File" /\ event.key = "Key_E"
    /\ calls = << <<"requestActivateByName", "Export">>, <<"trigger", bridge.controlAfter>> >>

-----------------------------------------------------------------------------
(* C17 *)

\* the machine as it was before the last handler ran
PreMachine(mods) ==
    [hl |-> pre.hl, opened |-> pre.opened, need |-> pre.need, last |-> pre.last,
     calls |-> <<>>, accepted |-> FALSE, mods |-> mods, reads |-> {}]

\* the key press of the event just probed, in the state it was probed in,
\* would be consumed
PressWouldBeConsumed ==
    \A br \in BridgesAnswering({"isHighlight", "activeControl"}) :
        eventFilter(PreMachine(event.mods),
                    KeyEvent("KeyPress", event.key, event.mods, event.target), br).ret

PressWouldPass ==
    \A br \in BridgesAnswering({"isHighlight", "activeControl"}) :
        ~eventFilter(PreMachine(event.mods),
                     KeyEvent("KeyPress", event.key, event.mods, event.target), br).ret

\* on the menu bar the probe claims what the press would consume, and does nothing else
ProbeOnMenuBarOnlyClaims ==
    (event.type = "ShortcutOverride" /\ OnMenuBar) =>
        /\ IF filtered THEN accepted /\ PressWouldBeConsumed
                       ELSE ~accepted /\ PressWouldPass
        /\ NavState = pre
        /\ calls = <<>> /\ bridge.asked = {}

-----------------------------------------------------------------------------
(* C18 *)

\* C18: highlightedMenuId is always empty or the id of a top-level item.
C18_HighlightIsTopLevelOrEmpty ==
    m_highlightedMenuId \in TopIds \cup {""}

C18_Witness ==
    /\ event.type = "KeyPress" /\ event.key = "Key_Left"
    /\ pre.hl = FirstId
    /\ rowCount > 1
    /\ m_highlightedMenuId = items[rowCount].id

-----------------------------------------------------------------------------
(* C19 *)

\* a key or pointer event delivered to a window while a menu is open
InputWhileMenuOpen ==
    /\ event.type \in KeyEventTypes \cup {"MouseButtonPress"}
    /\ OnOpenedMenu

\* C19: while a menu is open, an event for a window changes no navigation
\* state and causes no save, restore, open-menu notification or dispatch; only
\* a probe of one character without modifiers can have any effect.
C19_OpenedMenuShieldsMenuBar ==
    InputWhileMenuOpen =>
        /\ NavState = pre
        /\ NotActivated
        /\ ~Called("setActive(false)") /\ ~Called("requestActive")
        /\ ~SubitemProbe =>
               /\ calls = <<>> /\ bridge.asked = {}
               /\ ~filtered /\ ~accepted
               /\ event.modsAfter = event.mods

\* Escape reaches the main window during a session, and the session goes on
C19_Witness ==
    /\ InputWhileMenuOpen
    /\ event.target = "appWindow"
    /\ event.type = "KeyPress" /\ event.key = "Key_Escape"
    /\ SessionWasActive
    /\ m_highlightedMenuId = pre.hl

-----------------------------------------------------------------------------
(* C20 *)

\* C20: a probe or key press that is not consumed leaves the filter with the
\* modifiers it came with.
C20_UnhandledEventKeepsModifiers ==
    (event.type \in {"ShortcutOverride", "KeyPress"} /\ ~filtered) =>
        event.modsAfter = event.mods

====
